---------------------------- MODULE Spec2Model ----------------------------
(***************************************************************************)
(* A model of analyze_frametimes (src/main.py): the frame-time analysis   *)
(* pipeline of the video stutter analyzer.                                 *)
(*                                                                         *)
(* Number representation.                                                  *)
(*  - Motion-domain floats (grey levels, motion samples, thresholds, the   *)
(*    EMA) are fixed-point integers, Fx(u, m) = u + m/1000.  Sums and      *)
(*    comparisons are exact; the EMA update rounds toward zero at 1/1000   *)
(*    where the IEEE double rounds to nearest at 2^-53.                    *)
(*  - Time-domain floats (frame times, timestamps, the statistics) are     *)
(*    exact rationals <<n, d>> in lowest terms with d > 0, so the model    *)
(*    has no floating-point rounding error in them.                        *)
(*  - A frame is modelled by a uniform grey level, so that the mean over   *)
(*    the 320x180 canvas of |gray - prev_gray| is the absolute difference  *)
(*    of the two levels.                                                   *)
(***************************************************************************)
EXTENDS Integers, Sequences, FiniteSets, TLC

VARIABLES
    video,                \* the frame source: opened, fps, frame_count, frames
    params,               \* the five tunable parameters of the call
    pc,                   \* position inside analyze_frametimes
    fps, total_frames, frame_duration_ms,
    prev_gray, pos,       \* the scorer's rolling frame and the read position
    frame_diffs,
    ema_diff, is_duplicate,
    effective_frametimes, stutters,
    current_frametime, current_dup_start, current_dup_count, current_time,
    i,                    \* the index of the aggregator scan
    ret,                  \* <<>> or <<[stats |-> FrameTimeStats, events |-> stutters]>>
    err                   \* "" or the message of the RuntimeError raised

vars == <<video, params, pc, fps, total_frames, frame_duration_ms, prev_gray,
          pos, frame_diffs, ema_diff, is_duplicate, effective_frametimes,
          stutters, current_frametime, current_dup_start, current_dup_count,
          current_time, i, ret, err>>

----------------------------------------------------------------------------
(* Bounds of the model *)

MaxFrames == 5

----------------------------------------------------------------------------
(* Fixed-point numbers of the motion domain *)

Fx(units, thousandths) == units * 1000 + thousandths

One == Fx(1, 0)

Abs(x) == IF x < 0 THEN -x ELSE x

Min(a, b) == IF a < b THEN a ELSE b

Max(a, b) == IF a > b THEN a ELSE b

----------------------------------------------------------------------------
(* Exact rationals of the time domain *)

RECURSIVE Gcd(_, _)
Gcd(a, b) == IF b = 0 THEN a ELSE Gcd(b, a % b)

R(n, d) ==
    LET g == Gcd(Abs(n), Abs(d))
        s == IF d < 0 THEN -1 ELSE 1
    IN  <<(s * n) \div g, (s * d) \div g>>

RInt(n) == <<n, 1>>

RAdd(x, y) == R(x[1] * y[2] + y[1] * x[2], x[2] * y[2])

RSub(x, y) == R(x[1] * y[2] - y[1] * x[2], x[2] * y[2])

RMul(x, y) ==
    LET a == R(x[1], y[2])
        b == R(y[1], x[2])
    IN  R(a[1] * b[1], a[2] * b[2])

RDiv(x, y) == RMul(x, <<y[2], y[1]>>)

RLt(x, y) == x[1] * y[2] < y[1] * x[2]

RLe(x, y) == x[1] * y[2] <= y[1] * x[2]

RMin(x, y) == IF RLt(y, x) THEN y ELSE x

RMax(x, y) == IF RLt(x, y) THEN y ELSE x

\* the sum of a sequence of rationals, by halves (exact arithmetic makes the
\* order of the additions irrelevant)
RECURSIVE RSum(_)
RSum(s) ==
    IF s = <<>> THEN RInt(0)
    ELSE IF Len(s) = 1 THEN s[1]
    ELSE LET mid == Len(s) \div 2
         IN  RAdd(RSum(SubSeq(s, 1, mid)), RSum(SubSeq(s, mid + 1, Len(s))))

RECURSIVE Sum(_)
Sum(s) == IF s = <<>> THEN 0 ELSE s[1] + Sum(Tail(s))

----------------------------------------------------------------------------
(* Python sequence helpers *)

\* s[a:b] for 0 <= a, 0 <= b (0-based, half open, clipped at the end of s)
Slice(s, a, b) ==
    LET hi == Min(b, Len(s))
    IN  IF a >= hi THEN <<>> ELSE [j \in 1..(hi - a) |-> s[a + j]]

\* the 1-based place of s[j] in the ascending order of s, ties kept in
\* their original order
Place(s, j) ==
    Cardinality({m \in 1..Len(s) :
                    RLt(s[m], s[j]) \/ (s[m] = s[j] /\ m <= j)})

\* np.sort: ascending
Sort(s) == [k \in 1..Len(s) |-> s[CHOOSE j \in 1..Len(s) : Place(s, j) = k]]

\* np.max
RMaxOf(s) ==
    s[CHOOSE j \in 1..Len(s) : \A m \in 1..Len(s) : RLe(s[m], s[j])]

----------------------------------------------------------------------------
(* The inputs: frame sources and parameter settings *)

\* grey levels of the frames of the bounded videos: 0.0, 0.08 and 3.0
Levels == {Fx(0, 0), Fx(0, 80), Fx(3, 0)}

BoundedFrames == UNION {[1..n -> Levels] : n \in 0..MaxFrames}

\* Scenario B: 66 frames whose motion samples are 5 times (10 samples of
\* 10.0, then 3 samples of 0.0): the level flips between 0.0 and 10.0 on each
\* of the 10 moving transitions of a period of 13, then holds for 3
ScenarioBFrames ==
    [j \in 1..66 |-> IF Min((j - 1) % 13, 10) % 2 = 1 THEN Fx(10, 0) ELSE 0]

\* 102 frames: the second repeats the first, then the level flips between
\* 0.0 and 3.0 on each of the 100 remaining transitions
LongFrames == [j \in 1..102 |-> IF j % 2 = 1 /\ j > 1 THEN Fx(3, 0) ELSE 0]

\* Scenario A: 100 identical frames, so all 99 motion samples are 0.0
ScenarioAFrames == [j \in 1..100 |-> Fx(3, 0)]

\* what a frame source may report for the frames it yields
Sources(fr) ==
    {[opened |-> TRUE,  fps |-> 30, frame_count |-> Len(fr),     frames |-> fr],
     [opened |-> TRUE,  fps |-> 0,  frame_count |-> Len(fr),     frames |-> fr],
     [opened |-> TRUE,  fps |-> 30, frame_count |-> Len(fr) + 1, frames |-> fr],
     [opened |-> FALSE, fps |-> 0,  frame_count |-> 0,           frames |-> <<>>]}

Videos ==
    UNION {Sources(fr) : fr \in BoundedFrames}
    \cup {[opened |-> TRUE, fps |-> 30, frame_count |-> Len(fr), frames |-> fr] :
            fr \in {ScenarioAFrames, ScenarioBFrames, LongFrames}}

Defaults ==
    [ema_alpha              |-> Fx(0, 100),
     duplicate_threshold    |-> Fx(0, 100),
     absolute_duplicate_max |-> Fx(0, 100),
     motion_threshold       |-> Fx(2, 0),
     context_frames         |-> 5]

ParamChoices ==
    {Defaults}
    \cup {[Defaults EXCEPT !.context_frames = c] : c \in {-1, 0, 1, 2}}
    \cup {[Defaults EXCEPT !.motion_threshold = m] : m \in {0, Fx(4, 0)}}
    \cup {[Defaults EXCEPT !.duplicate_threshold = 0],
          [Defaults EXCEPT !.absolute_duplicate_max = 0],
          [Defaults EXCEPT !.ema_alpha = Fx(0, 900)]}

\* current_dup_start = None
NoneIdx == -1

Init ==
    /\ video \in Videos
    /\ params \in ParamChoices
    /\ pc = "open"
    /\ fps = 0
    /\ total_frames = 0
    /\ frame_duration_ms = RInt(0)
    /\ prev_gray = 0
    /\ pos = 0
    /\ frame_diffs = <<>>
    /\ ema_diff = 0
    /\ is_duplicate = <<>>
    /\ effective_frametimes = <<>>
    /\ stutters = <<>>
    /\ current_frametime = RInt(0)
    /\ current_dup_start = NoneIdx
    /\ current_dup_count = 0
    /\ current_time = RInt(0)
    /\ i = 0
    /\ ret = <<>>
    /\ err = ""

----------------------------------------------------------------------------
(* Opening the source and the Motion Scorer *)

scanVars == <<effective_frametimes, stutters, current_frametime,
              current_dup_start, current_dup_count, current_time, i>>

srcVars == <<fps, total_frames, frame_duration_ms>>

readVars == <<prev_gray, pos, frame_diffs>>

Raise(msg) ==
    /\ err' = msg
    /\ pc' = "failed"
    /\ UNCHANGED ret

\* cap.isOpened() is false
OpenFail ==
    /\ pc = "open"
    /\ ~video.opened
    /\ Raise("Failed to open video")
    /\ UNCHANGED <<video, params, srcVars, readVars, ema_diff, is_duplicate, scanVars>>

\* cap.get(CAP_PROP_FPS) or 60.0
FpsOf(v) == IF v.fps = 0 THEN 60 ELSE v.fps

Open ==
    /\ pc = "open"
    /\ video.opened
    /\ fps' = FpsOf(video)
    /\ total_frames' = video.frame_count
    /\ frame_duration_ms' = RDiv(RInt(1000), RInt(fps'))
    /\ pc' = "read_first"
    /\ UNCHANGED <<video, params, readVars, ema_diff, is_duplicate, scanVars, ret, err>>

\* the first cap.read() returns no frame
ReadFirstFail ==
    /\ pc = "read_first"
    /\ Len(video.frames) = 0
    /\ Raise("Failed to read video frames")
    /\ UNCHANGED <<video, params, srcVars, readVars, ema_diff, is_duplicate, scanVars>>

ReadFirst ==
    /\ pc = "read_first"
    /\ Len(video.frames) > 0
    /\ prev_gray' = video.frames[1]
    /\ pos' = 1
    /\ frame_diffs' = <<>>
    /\ pc' = "read_loop"
    /\ UNCHANGED <<video, params, srcVars, ema_diff, is_duplicate, scanVars, ret, err>>

\* float(np.mean(np.abs(gray - prev_gray)))
MotionScore(gray, prev) == Abs(gray - prev)

ReadFrame ==
    /\ pc = "read_loop"
    /\ pos < Len(video.frames)
    /\ LET gray == video.frames[pos + 1]
       IN  /\ frame_diffs' = Append(frame_diffs, MotionScore(gray, prev_gray))
           /\ prev_gray' = gray
    /\ pos' = pos + 1
    /\ UNCHANGED <<video, params, pc, srcVars, ema_diff, is_duplicate, scanVars, ret, err>>

\* cap.read() returns no frame: the loop breaks and the capture is released
ReadEnd ==
    /\ pc = "read_loop"
    /\ pos >= Len(video.frames)
    /\ pc' = "check"
    /\ UNCHANGED <<video, params, srcVars, readVars, ema_diff, is_duplicate, scanVars, ret, err>>

\* a faulty variant of NoFrameData: the message of the open failure is reused
NoFrameData_OpenMessage ==
    /\ pc = "check"
    /\ frame_diffs = <<>>
    /\ Raise("Failed to open video")
    /\ UNCHANGED <<video, params, srcVars, readVars, ema_diff, is_duplicate, scanVars>>

NoFrameData ==
    /\ pc = "check"
    /\ frame_diffs = <<>>
    /\ Raise("No frame data extracted")
    /\ UNCHANGED <<video, params, srcVars, readVars, ema_diff, is_duplicate, scanVars>>

----------------------------------------------------------------------------
(* The Adaptive Duplicate Classifier *)

\* a faulty variant of EmaSeed: a first sample of 0 seeds the EMA with 0
EmaSeed_NoFallback(diffs) == diffs[1]

\* frame_diffs[0] if frame_diffs[0] > 0 else 1.0
EmaSeed(diffs) == IF diffs[1] > 0 THEN diffs[1] ELSE One

\* ema_alpha * diff + (1 - ema_alpha) * ema_diff
EmaUpdate(alpha, diff, ema) == (alpha * diff + (One - alpha) * ema) \div One

\* a faulty variant of IsDuplicate: the absolute ceiling is tested the wrong
\* way round
IsDuplicate_CeilingReversed(diff, ema, p) ==
    /\ diff * One < p.duplicate_threshold * Max(ema, Fx(0, 500))
    /\ diff > p.absolute_duplicate_max

\* diff < duplicate_threshold * max(ema_diff, 0.5) and diff < absolute_duplicate_max
IsDuplicate(diff, ema, p) ==
    /\ diff * One < p.duplicate_threshold * Max(ema, Fx(0, 500))
    /\ diff < p.absolute_duplicate_max

SeedEma ==
    /\ pc = "check"
    /\ frame_diffs # <<>>
    /\ ema_diff' = EmaSeed(frame_diffs)
    /\ is_duplicate' = <<>>
    /\ pc' = "classify"
    /\ UNCHANGED <<video, params, srcVars, readVars, scanVars, ret, err>>

Classify ==
    /\ pc = "classify"
    /\ Len(is_duplicate) < Len(frame_diffs)
    /\ LET diff == frame_diffs[Len(is_duplicate) + 1]
           ema  == EmaUpdate(params.ema_alpha, diff, ema_diff)
       IN  /\ ema_diff' = ema
           /\ is_duplicate' = Append(is_duplicate, IsDuplicate(diff, ema, params))
    /\ UNCHANGED <<video, params, pc, srcVars, readVars, scanVars, ret, err>>

----------------------------------------------------------------------------
(* The Duplicate-Run Aggregator / Stutter Detector *)

StartScan ==
    /\ pc = "classify"
    /\ Len(is_duplicate) = Len(frame_diffs)
    /\ effective_frametimes' = <<>>
    /\ stutters' = <<>>
    /\ current_frametime' = frame_duration_ms
    /\ current_dup_start' = NoneIdx
    /\ current_dup_count' = 0
    /\ current_time' = RInt(0)
    /\ i' = 0
    /\ pc' = "scan"
    /\ UNCHANGED <<video, params, srcVars, readVars, ema_diff, is_duplicate, ret, err>>

\* a faulty variant of ScanDuplicate: the frame time grows only when the run
\* is already open
ScanDuplicate_FirstNotTimed ==
    /\ pc = "scan"
    /\ i < Len(is_duplicate)
    /\ is_duplicate[i + 1]
    /\ IF current_dup_start = NoneIdx
       THEN /\ current_dup_start' = i
            /\ current_dup_count' = 1
            /\ UNCHANGED current_frametime
       ELSE /\ current_dup_count' = current_dup_count + 1
            /\ current_frametime' = RAdd(current_frametime, frame_duration_ms)
            /\ UNCHANGED current_dup_start
    /\ i' = i + 1
    /\ UNCHANGED <<video, params, pc, srcVars, readVars, ema_diff, is_duplicate,
                   effective_frametimes, stutters, current_time, ret, err>>

\* is_dup: the run opens or grows, and the frame time grows by one frame
ScanDuplicate ==
    /\ pc = "scan"
    /\ i < Len(is_duplicate)
    /\ is_duplicate[i + 1]
    /\ IF current_dup_start = NoneIdx
       THEN /\ current_dup_start' = i
            /\ current_dup_count' = 1
       ELSE /\ current_dup_count' = current_dup_count + 1
            /\ UNCHANGED current_dup_start
    /\ current_frametime' = RAdd(current_frametime, frame_duration_ms)
    /\ i' = i + 1
    /\ UNCHANGED <<video, params, pc, srcVars, readVars, ema_diff, is_duplicate,
                   effective_frametimes, stutters, current_time, ret, err>>

\* a faulty variant of MotionBefore: the slice also takes the run's first sample
MotionBefore_Inclusive(diffs, start, context) ==
    Slice(diffs, Max(0, start - context), start + 1)

\* frame_diffs[max(0, current_dup_start - context_frames):current_dup_start]
MotionBefore(diffs, start, context) == Slice(diffs, Max(0, start - context), start)

\* float(np.mean(motion_before_dups)), in fixed-point units
Mean(s) == R(Sum(s), Len(s))

\* a faulty variant of MotionGate: any motion at all passes
MotionGate_AnyMotion(avg, threshold) == RLt(RInt(0), avg)

\* avg_motion >= motion_threshold
MotionGate(avg, threshold) == RLe(RInt(threshold), avg)

\* the events the closing of the current run appends to stutters
RunEvents ==
    IF current_dup_start # NoneIdx /\ current_dup_count >= 1
    THEN LET before == MotionBefore(frame_diffs, current_dup_start,
                                    params.context_frames)
         IN  IF before # <<>> /\ MotionGate(Mean(before), params.motion_threshold)
             THEN <<[frame_index     |-> current_dup_start,
                     timestamp       |-> RDiv(current_time, RInt(1000)),
                     frametime_ms    |-> current_frametime,
                     duplicate_count |-> current_dup_count,
                     motion_before   |-> Mean(before)]>>
             ELSE <<>>
    ELSE <<>>

\* a faulty variant of ScanBoundary: a new event is put in front of the list
ScanBoundary_Prepend ==
    /\ pc = "scan"
    /\ i < Len(is_duplicate)
    /\ ~is_duplicate[i + 1]
    /\ stutters' = RunEvents \o stutters
    /\ effective_frametimes' = Append(effective_frametimes, current_frametime)
    /\ current_time' = RAdd(current_time, current_frametime)
    /\ current_frametime' = frame_duration_ms
    /\ current_dup_start' = NoneIdx
    /\ current_dup_count' = 0
    /\ i' = i + 1
    /\ UNCHANGED <<video, params, pc, srcVars, readVars, ema_diff, is_duplicate,
                   ret, err>>

\* a faulty variant of ScanBoundary: the clock advances by one nominal frame
\* instead of the accumulated frame time
ScanBoundary_NominalClock ==
    /\ pc = "scan"
    /\ i < Len(is_duplicate)
    /\ ~is_duplicate[i + 1]
    /\ stutters' = stutters \o RunEvents
    /\ effective_frametimes' = Append(effective_frametimes, current_frametime)
    /\ current_time' = RAdd(current_time, frame_duration_ms)
    /\ current_frametime' = frame_duration_ms
    /\ current_dup_start' = NoneIdx
    /\ current_dup_count' = 0
    /\ i' = i + 1
    /\ UNCHANGED <<video, params, pc, srcVars, readVars, ema_diff, is_duplicate,
                   ret, err>>

\* not is_dup: the open run is checked, the frame time is closed
ScanBoundary ==
    /\ pc = "scan"
    /\ i < Len(is_duplicate)
    /\ ~is_duplicate[i + 1]
    /\ stutters' = stutters \o RunEvents
    /\ effective_frametimes' = Append(effective_frametimes, current_frametime)
    /\ current_time' = RAdd(current_time, current_frametime)
    /\ current_frametime' = frame_duration_ms
    /\ current_dup_start' = NoneIdx
    /\ current_dup_count' = 0
    /\ i' = i + 1
    /\ UNCHANGED <<video, params, pc, srcVars, readVars, ema_diff, is_duplicate,
                   ret, err>>

\* a faulty variant of Flush: the tail frame time is not appended
Flush_NoTail ==
    /\ pc = "scan"
    /\ i = Len(is_duplicate)
    /\ pc' = "stats"
    /\ UNCHANGED <<video, params, srcVars, readVars, ema_diff, is_duplicate,
                   scanVars, ret, err>>

\* after the loop: effective_frametimes.append(current_frametime)
Flush ==
    /\ pc = "scan"
    /\ i = Len(is_duplicate)
    /\ effective_frametimes' = Append(effective_frametimes, current_frametime)
    /\ pc' = "stats"
    /\ UNCHANGED <<video, params, srcVars, readVars, ema_diff, is_duplicate,
                   stutters, current_frametime, current_dup_start,
                   current_dup_count, current_time, i, ret, err>>

----------------------------------------------------------------------------
(* The Statistics Engine *)

\* sum(is_duplicate)
CountTrue(s) == Cardinality({j \in 1..Len(s) : s[j]})

\* a faulty variant of QuantileIndex: n * q is rounded to nearest, not truncated
QuantileIndex_Rounded(n, permille) == Min((n * permille + 500) \div 1000, n - 1)

\* min(int(n * q), n - 1) for q = permille / 1000 (0.99 or 0.999)
QuantileIndex(n, permille) == Min((n * permille) \div 1000, n - 1)

\* a faulty variant of LowIndices: the two quantiles exchanged
LowIndices_Swapped(n) == <<QuantileIndex(n, 999), QuantileIndex(n, 990)>>

\* <<idx_1pct, idx_01pct>> for a sorted array of length n
LowIndices(n) == <<QuantileIndex(n, 990), QuantileIndex(n, 999)>>

\* 1000.0 / t if t > 0 else 0
FpsFrom(t) == IF RLt(RInt(0), t) THEN RDiv(RInt(1000), t) ELSE RInt(0)

\* one_pct_fps / avg_fps if avg_fps > 0 else 0
ConsistencyRatio(one_pct_fps, avg_fps) ==
    IF RLt(RInt(0), avg_fps) THEN RDiv(one_pct_fps, avg_fps) ELSE RInt(0)

\* sum(s.duplicate_count for s in stutters)
RECURSIVE StutterFrames(_)
StutterFrames(ev) ==
    IF ev = <<>> THEN 0 ELSE ev[1].duplicate_count + StutterFrames(Tail(ev))

\* max(0, avg_to_1pct_ratio * 100 - min(50, stutter_ratio * 500))
StutterScore(ratio, stutter_ratio) ==
    RMax(RInt(0), RSub(RMul(ratio, RInt(100)),
                       RMin(RInt(50), RMul(stutter_ratio, RInt(500)))))

FrameTimeStats ==
    LET frametimes      == effective_frametimes
        duplicate_count == CountTrue(is_duplicate)
        avg_frametime   == RDiv(RSum(frametimes), RInt(Len(frametimes)))
        sorted_ft       == Sort(frametimes)
        idx_1pct        == LowIndices(Len(sorted_ft))[1]
        idx_01pct       == LowIndices(Len(sorted_ft))[2]
        one_percent_low == sorted_ft[idx_1pct + 1]
        point_one_low   == sorted_ft[idx_01pct + 1]
        avg_fps         == FpsFrom(avg_frametime)
        one_pct_fps     == FpsFrom(one_percent_low)
        ratio           == ConsistencyRatio(one_pct_fps, avg_fps)
        stutter_ratio   == IF is_duplicate # <<>>
                           THEN R(StutterFrames(stutters), Len(is_duplicate))
                           ELSE RInt(0)
    IN  [fps                   |-> fps,
         total_frames          |-> total_frames,
         duration              |-> R(total_frames, fps),
         duplicate_frames      |-> duplicate_count,
         duplicate_ratio       |-> IF is_duplicate # <<>>
                                   THEN R(duplicate_count, Len(is_duplicate))
                                   ELSE RInt(0),
         avg_frametime         |-> avg_frametime,
         one_percent_low       |-> one_percent_low,
         point_one_percent_low |-> point_one_low,
         max_frametime         |-> RMaxOf(frametimes),
         avg_to_1pct_ratio     |-> ratio,
         stutter_score         |-> StutterScore(ratio, stutter_ratio)]

Return ==
    /\ pc = "stats"
    /\ ret' = <<[stats |-> FrameTimeStats, events |-> stutters]>>
    /\ pc' = "done"
    /\ UNCHANGED <<video, params, srcVars, readVars, ema_diff, is_duplicate,
                   scanVars, err>>

----------------------------------------------------------------------------

Next ==
    \/ OpenFail
    \/ Open
    \/ ReadFirstFail
    \/ ReadFirst
    \/ ReadFrame
    \/ ReadEnd
    \/ NoFrameData
    \/ SeedEma
    \/ Classify
    \/ StartScan
    \/ ScanDuplicate
    \/ ScanBoundary
    \/ Flush
    \/ Return

Spec == Init /\ [][Next]_vars

----------------------------------------------------------------------------
(* Vocabulary of the properties *)

Returned == pc = "done"

\* the scan and the flush of the tail are over
Scanned == pc \in {"stats", "done"}

Stats == ret[1].stats

Events == ret[1].events

\* the number of frames the source yields
FramesRead == Len(video.frames)

\* the maximal runs <<start, length>> of duplicate-flagged transitions, by
\* 0-based transition index
MaximalRuns ==
    {r \in (0..(Len(is_duplicate) - 1)) \X (1..Len(is_duplicate)) :
        /\ r[1] + r[2] <= Len(is_duplicate)
        /\ \A j \in (r[1] + 1)..(r[1] + r[2]) : is_duplicate[j]
        /\ r[1] = 0 \/ ~is_duplicate[r[1]]
        /\ r[1] + r[2] = Len(is_duplicate) \/ ~is_duplicate[r[1] + r[2] + 1]}

\* the context_frames motion samples before transition start, clipped at 0
Context(start) ==
    LET lo == IF start - params.context_frames < 0 THEN 0
              ELSE start - params.context_frames
    IN  [j \in 1..(start - lo) |-> frame_diffs[lo + j]]

\* the preceding samples exist and average at least motion_threshold
EnoughMotion(start) ==
    /\ Context(start) # <<>>
    /\ Sum(Context(start)) >= params.motion_threshold * Len(Context(start))

EventsAt(start) == {k \in 1..Len(stutters) : stutters[k].frame_index = start}

\* the number of transitions before index n that are not flagged duplicate
ClosedBefore(n) == Cardinality({j \in 1..n : ~is_duplicate[j]})

----------------------------------------------------------------------------
(* C1 *)

\* C1 as stated: for every accepted input of N >= 2 frames, the number of
\* effective frame times plus the number of duplicate-flagged transitions is
\* N - 1.
C1_CountIsFramesMinusOne ==
    Returned =>
        Len(effective_frametimes) + Stats.duplicate_frames = FramesRead - 1

\* C1 amended: for every accepted input of N >= 2 frames, the number of
\* effective frame times plus the number of duplicate-flagged transitions is
\* N: one per transition, plus the tail entry flushed after the scan.
C1_CountIsFrames ==
    /\ Scanned =>
          /\ FramesRead >= 2
          /\ Len(effective_frametimes) + CountTrue(is_duplicate) = FramesRead
    /\ Returned => Stats.duplicate_frames = CountTrue(is_duplicate)

\* C1 witness: a returned analysis with duplicate and non-duplicate transitions
C1_Witness ==
    /\ Returned
    /\ FramesRead >= 4
    /\ Stats.duplicate_frames >= 2
    /\ Stats.duplicate_frames < Len(is_duplicate)

----------------------------------------------------------------------------
(* C2 *)

\* C2: for every accepted input, the sum of the effective frame times equals
\* duration_ms = (total_frames / fps) * 1000 for the total_frames and fps of
\* the returned FrameTimeStats, also when the declared frame count differs
\* from the number of frames the source yields.
C2_SumIsDuration ==
    Returned =>
        RSum(effective_frametimes)
            = RMul(R(Stats.total_frames, Stats.fps), RInt(1000))

----------------------------------------------------------------------------
(* C3 *)

\* C3: for every accepted input and parameter setting, stutter_score lies in
\* [0, 100]: the consistency term avg_to_1pct_ratio * 100 is at most 100
\* (avg_frametime <= one_percent_low).
C3_ScoreInRange ==
    Returned =>
        /\ RLe(RInt(0), Stats.stutter_score)
        /\ RLe(Stats.stutter_score, RInt(100))
        /\ RLe(Stats.avg_frametime, Stats.one_percent_low)

----------------------------------------------------------------------------
(* C4 *)

\* C4: no StutterEvent is emitted for a run whose preceding context_frames
\* motion samples (clipped at the sequence start) average below
\* motion_threshold: every event has motion_before >= motion_threshold, and
\* motion_before is the mean of those samples.
C4_NoEventBelowMotionThreshold ==
    \A k \in 1..Len(stutters) :
        LET e == stutters[k]
            c == Context(e.frame_index)
        IN  /\ c # <<>>
            /\ Sum(c) >= params.motion_threshold * Len(c)
            /\ e.motion_before[1] * Len(c) = Sum(c) * e.motion_before[2]
            /\ e.motion_before[1] >= params.motion_threshold * e.motion_before[2]

\* C4 witness: a closed run after too little motion left no event, in an
\* analysis with a positive motion threshold
C4_Witness ==
    /\ Returned
    /\ params.motion_threshold > 0
    /\ \E r \in MaximalRuns :
          /\ r[1] + r[2] < Len(is_duplicate)
          /\ Context(r[1]) # <<>>
          /\ Sum(Context(r[1])) > 0
          /\ ~EnoughMotion(r[1])
          /\ EventsAt(r[1]) = {}

----------------------------------------------------------------------------
(* C5 *)

\* C5: every maximal run of duplicate-flagged transitions whose preceding
\* context_frames motion samples average at least motion_threshold produces
\* exactly one StutterEvent, wherever the run lies, a run that extends to
\* the last transition included.
C5_OneEventPerMovingRun ==
    Returned =>
        \A r \in MaximalRuns :
            EnoughMotion(r[1]) => Cardinality(EventsAt(r[1])) = 1

----------------------------------------------------------------------------
(* C6 *)

ScenarioB ==
    /\ video.frames = ScenarioBFrames
    /\ params = Defaults
    /\ fps = 30

\* C6: Scenario B (5 times 10 samples of 10.0 then 3 samples of 0.0, 30 fps,
\* default parameters) returns exactly 5 StutterEvents, each with
\* duplicate_count = 3 and frametime_ms = 4 * (1000 / 30).
C6_ScenarioBFiveEvents ==
    (Returned /\ ScenarioB) =>
        /\ Len(Events) = 5
        /\ \A k \in 1..Len(Events) :
              /\ Events[k].duplicate_count = 3
              /\ Events[k].frametime_ms = R(4 * 1000, 30)

----------------------------------------------------------------------------
(* C7 *)

\* C7: a call with a non-positive context_frames, duplicate_threshold,
\* absolute_duplicate_max or motion_threshold ends in a validation error and
\* never returns a (FrameTimeStats, events) result.
C7_ParameterMisuseFails ==
    Returned =>
        /\ params.context_frames > 0
        /\ params.duplicate_threshold > 0
        /\ params.absolute_duplicate_max > 0
        /\ params.motion_threshold > 0

----------------------------------------------------------------------------
(* C8 *)

EmptyStreamErrors == {"Failed to read video frames", "No frame data extracted"}

SourceUnavailableError == "Failed to open video"

\* C8: a source that opens but yields zero frames or one frame fails with an
\* empty-stream error that differs from the source-unavailable error of a
\* source that cannot be opened; in none of the three cases does the
\* analysis get past the checks or return a FrameTimeStats.
C8_EmptyStreamFailsDistinctly ==
    /\ (pc = "failed" /\ video.opened /\ FramesRead <= 1) =>
          /\ err \in EmptyStreamErrors
          /\ err # SourceUnavailableError
    /\ (pc = "failed" /\ ~video.opened) => err = SourceUnavailableError
    /\ (~video.opened \/ FramesRead <= 1) =>
          /\ ret = <<>>
          /\ pc \in {"open", "read_first", "read_loop", "check", "failed"}

\* C8 witness: a one-frame source has failed
C8_Witness ==
    /\ pc = "failed"
    /\ video.opened
    /\ FramesRead = 1

----------------------------------------------------------------------------
(* C9 *)

\* C9: every StutterEvent describes its run: frame_index is the first
\* duplicate-flagged transition of a maximal run, duplicate_count is the
\* run's length (>= 1) and the transition after the run is not a duplicate,
\* frametime_ms is the nominal frame duration times (1 + duplicate_count),
\* and timestamp * 1000 is the sum of the effective frame times closed
\* before the run.
C9_EventDescribesRun ==
    \A k \in 1..Len(stutters) :
        LET e == stutters[k]
            s == e.frame_index
            n == e.duplicate_count
        IN  /\ n >= 1
            /\ <<s, n>> \in MaximalRuns
            /\ s + n < Len(is_duplicate)
            /\ e.frametime_ms = RMul(frame_duration_ms, RInt(1 + n))
            /\ ClosedBefore(s) <= Len(effective_frametimes)
            /\ RMul(e.timestamp, RInt(1000))
                 = RSum(SubSeq(effective_frametimes, 1, ClosedBefore(s)))

\* C9 witness: an event of a run of several duplicates that starts after an
\* earlier run was closed into a longer effective frame time
C9_Witness ==
    /\ Returned
    /\ \E k \in 1..Len(stutters) :
          /\ stutters[k].duplicate_count >= 2
          /\ \E j \in 1..ClosedBefore(stutters[k].frame_index) :
                effective_frametimes[j] # frame_duration_ms

----------------------------------------------------------------------------
(* C10 *)

\* C10: for every accepted input, point_one_percent_low >= one_percent_low,
\* and both are at most max_frametime.
C10_LowsOrdered ==
    Returned =>
        /\ RLe(Stats.one_percent_low, Stats.point_one_percent_low)
        /\ RLe(Stats.point_one_percent_low, Stats.max_frametime)
        /\ RLe(Stats.one_percent_low, Stats.max_frametime)

\* C10 witness: the two lows differ (more than 100 effective frame times)
C10_Witness ==
    /\ Returned
    /\ RLt(Stats.one_percent_low, Stats.point_one_percent_low)

----------------------------------------------------------------------------
(* C11 *)

\* a run of duplicates starts at transition 0 and is closed by a
\* non-duplicate transition inside the sequence
ClosedRunAtStart ==
    \E r \in MaximalRuns : r[1] = 0 /\ r[2] < Len(is_duplicate)

\* C11: a duplicate run that starts at transition index 0 (no preceding
\* motion samples) never produces a StutterEvent, whatever context_frames
\* and motion_threshold are; with context_frames = 0 the analysis of a
\* stream of two or more frames never fails and emits no event.
C11_NoEventForRunAtStart ==
    /\ \A k \in 1..Len(stutters) : stutters[k].frame_index # 0
    /\ (params.context_frames = 0 /\ video.opened /\ FramesRead >= 2) =>
          /\ pc # "failed"
          /\ err = ""
          /\ stutters = <<>>

\* C11 witness (Scenario D): with context_frames = 0 an analysis returned
\* whose first run starts at transition 0 and was closed inside the sequence
C11_Witness ==
    /\ Returned
    /\ params.context_frames = 0
    /\ ClosedRunAtStart
    /\ Events = <<>>

----------------------------------------------------------------------------
(* C12 *)

ScenarioA ==
    /\ video.frames = ScenarioAFrames
    /\ params = Defaults

\* C12: Scenario A (100 identical frames, 99 motion samples of 0, default
\* parameters): every transition is flagged duplicate, duplicate_ratio is
\* 1.0, no StutterEvent is returned and there is exactly one effective
\* frame time.
C12_ScenarioAAllDuplicates ==
    (Returned /\ ScenarioA) =>
        /\ Len(frame_diffs) = 99
        /\ \A j \in 1..Len(frame_diffs) : frame_diffs[j] = 0
        /\ Len(is_duplicate) = 99
        /\ \A j \in 1..Len(is_duplicate) : is_duplicate[j]
        /\ Stats.duplicate_ratio = RInt(1)
        /\ Events = <<>>
        /\ Len(effective_frametimes) = 1

\* C12 witness: the analysis of Scenario A has returned
C12_Witness ==
    /\ Returned
    /\ ScenarioA
    /\ Stats.duplicate_frames = 99

----------------------------------------------------------------------------
(* C13 *)

\* C13: the StutterEvent list is ordered by occurrence and its runs do not
\* overlap: for consecutive events e and e',
\* e'.frame_index > e.frame_index + e.duplicate_count - 1 and
\* e'.timestamp > e.timestamp.
C13_EventsOrdered ==
    \A k \in 1..(Len(stutters) - 1) :
        LET e == stutters[k]
            f == stutters[k + 1]
        IN  /\ f.frame_index > e.frame_index + e.duplicate_count - 1
            /\ RLt(e.timestamp, f.timestamp)

\* C13 witness: an analysis returned three or more events
C13_Witness ==
    /\ Returned
    /\ Len(Events) >= 3

----------------------------------------------------------------------------
(* C14 *)

\* C14: the count of effective frame times is total_frames - duplicate_count
\* for total_frames the number of frames read and duplicate_count the number
\* of duplicate-flagged transitions: one entry per non-duplicate transition
\* plus one final entry, the tail.
C14_OneEntryPerNonDuplicatePlusTail ==
    Scanned =>
        /\ Len(effective_frametimes) = FramesRead - CountTrue(is_duplicate)
        /\ Len(effective_frametimes) = ClosedBefore(Len(is_duplicate)) + 1
        /\ effective_frametimes # <<>>
        /\ effective_frametimes[Len(effective_frametimes)] = current_frametime

\* C14 witness: a returned analysis that closed entries before its tail, read
\* a different number of frames than the source declared, and whose tail
\* absorbed duplicates
C14_Witness ==
    /\ Returned
    /\ total_frames # FramesRead
    /\ Len(effective_frametimes) >= 2
    /\ current_dup_count >= 1

----------------------------------------------------------------------------
(* C15 *)

\* the EMA starts at the first sample, or at 1.0 if that sample is 0
C15_Seeded ==
    (pc = "classify" /\ is_duplicate = <<>>) =>
        ema_diff = IF frame_diffs[1] = 0 THEN Fx(1, 0) ELSE frame_diffs[1]

\* a sample at or above absolute_duplicate_max is never flagged
C15_CeilingHolds ==
    \A j \in 1..Len(is_duplicate) :
        frame_diffs[j] >= params.absolute_duplicate_max => ~is_duplicate[j]

\* one step of the fold: the EMA is updated with the next sample d first,
\* then d is flagged iff it is below duplicate_threshold * max(ema, 0.5) and
\* below absolute_duplicate_max
C15_FoldStep ==
    is_duplicate' # is_duplicate =>
        LET d == frame_diffs[Len(is_duplicate) + 1]
            a == params.ema_alpha
        IN  /\ pc = "classify"
            /\ Len(is_duplicate) < Len(frame_diffs)
            /\ ema_diff' = (a * d + (Fx(1, 0) - a) * ema_diff) \div Fx(1, 0)
            /\ is_duplicate' =
                 Append(is_duplicate,
                        /\ d * Fx(1, 0) < params.duplicate_threshold
                                            * (IF ema_diff' > Fx(0, 500)
                                               THEN ema_diff' ELSE Fx(0, 500))
                        /\ d < params.absolute_duplicate_max)

\* C15: the duplicate classifier is a left fold over the motion samples: the
\* EMA starts at the first sample (or 1.0 if it is exactly 0); for each
\* sample d in order the EMA is first updated to alpha*d + (1-alpha)*ema and
\* d is flagged duplicate iff d < duplicate_threshold * max(ema, 0.5) and
\* d < absolute_duplicate_max; so a sample >= absolute_duplicate_max is never
\* flagged.
C15_ClassifierIsFold ==
    /\ []C15_Seeded
    /\ []C15_CeilingHolds
    /\ [][C15_FoldStep]_vars

\* C15 witness: a classification seeded by a first sample of 0 that flagged
\* a sample, left a sample under the absolute ceiling unflagged because of
\* the adaptive threshold, and met a sample above the ceiling
C15_Witness ==
    /\ pc = "scan"
    /\ frame_diffs[1] = 0
    /\ \E j \in 1..Len(is_duplicate) : is_duplicate[j]
    /\ \E j \in 1..Len(is_duplicate) :
          /\ frame_diffs[j] < params.absolute_duplicate_max
          /\ ~is_duplicate[j]
    /\ \E j \in 1..Len(is_duplicate) :
          frame_diffs[j] >= params.absolute_duplicate_max

----------------------------------------------------------------------------
(* C16 *)

\* x is the element at 0-based index k of the ascending order of the
\* effective frame times
AtSortedIndex(x, k) ==
    /\ \E j \in 1..Len(effective_frametimes) : effective_frametimes[j] = x
    /\ Cardinality({j \in 1..Len(effective_frametimes) :
                       RLt(effective_frametimes[j], x)}) <= k
    /\ Cardinality({j \in 1..Len(effective_frametimes) :
                       RLe(effective_frametimes[j], x)}) > k

\* C16: one_percent_low is the element at index min(floor(0.99 * len),
\* len - 1) of the ascending-sorted effective frame times and
\* point_one_percent_low the one at min(floor(0.999 * len), len - 1), by
\* truncation; so for at most 100 effective frame times one_percent_low is
\* max_frametime.
C16_LowsByTruncatedIndex ==
    Returned =>
        LET n  == Len(effective_frametimes)
            k1 == IF (99 * n) \div 100 < n - 1 THEN (99 * n) \div 100 ELSE n - 1
            k2 == IF (999 * n) \div 1000 < n - 1 THEN (999 * n) \div 1000 ELSE n - 1
        IN  /\ AtSortedIndex(Stats.one_percent_low, k1)
            /\ AtSortedIndex(Stats.point_one_percent_low, k2)
            /\ \A j \in 1..n : RLe(effective_frametimes[j], Stats.max_frametime)
            /\ n <= 100 => Stats.one_percent_low = Stats.max_frametime

\* C16 witness: with 101 effective frame times one_percent_low is the entry
\* at index 99, below the maximum at index 100
C16_Witness ==
    /\ Returned
    /\ Len(effective_frametimes) = 101
    /\ RLt(Stats.one_percent_low, Stats.max_frametime)
    /\ Stats.point_one_percent_low = Stats.max_frametime

----------------------------------------------------------------------------
(* C17 *)

\* the transitions already closed into effective frame times: those scanned
\* so far, less the ones of the run still open
ClosedTransitions == i - current_dup_count

\* C17: at every step of the aggregator scan the cumulative timestamp is the
\* number of transitions already closed into effective frame times times
\* the nominal frame duration; so every StutterEvent has
\* timestamp * 1000 = frame_index * frame_duration_ms, that is
\* timestamp = frame_index / fps.
C17_ClockCountsTransitions ==
    /\ pc = "scan" =>
          /\ current_time = RMul(RInt(ClosedTransitions), frame_duration_ms)
          /\ current_time = RSum(effective_frametimes)
    /\ \A k \in 1..Len(stutters) :
          /\ RMul(stutters[k].timestamp, RInt(1000))
               = RMul(RInt(stutters[k].frame_index), frame_duration_ms)
          /\ stutters[k].timestamp = R(stutters[k].frame_index, fps)

\* C17 witness: in mid-scan a run is open, an earlier run was closed into a
\* longer effective frame time and produced an event
C17_Witness ==
    /\ pc = "scan"
    /\ current_dup_count >= 1
    /\ stutters # <<>>
    /\ \E j \in 1..Len(effective_frametimes) :
          effective_frametimes[j] # frame_duration_ms
    /\ ClosedTransitions < i

=============================================================================
